---- MODULE Spec2Model ----
(***************************************************************************)
(* Model of new_async_tree_explorer.py: the breadth-first AST walker       *)
(* (Element), the symbol matcher (MatchPropertyVisitor), the per-file      *)
(* worker (worker_process) and the pool / callback / aggregator pipeline   *)
(* of the __main__ block.                                                  *)
(*                                                                         *)
(* Strings that the code splits, joins or measures (identifier names and   *)
(* dotted paths) are sequences of one-character strings.  None and False   *)
(* are the empty sequence where a string is expected (both are falsy in    *)
(* Python, as is the empty string) and node 0 where a node is expected.    *)
(***************************************************************************)
EXTENDS Integers, Sequences, FiniteSets, TLC

\* ------------------------------------------------------------------ bounds
MaxNodes == 4       \* nodes of a parsed tree
MaxFiles == 3       \* files found by glob
MaxWorkers == 2     \* multiprocessing.cpu_count()
MaxBatch == 2       \* batch_size of config.ini
MaxChain == 2       \* nested member accesses of a receiver chain
MaxGroups == 2      \* groups of the symbol catalog
MaxGroupLen == 2    \* names in one group of the catalog

\* ------------------------------------------------------------- names, text
A == <<"a">>
OP == <<"o", "p">>
SUF == <<"s", "c", "r", "i", "p", "t", "_", "u", "r", "l", "_",
         "f", "i", "l", "e", "n", "a", "m", "e">>
Names == {A, OP, SUF}
FETCH == <<"f", "e", "t", "c", "h">>
NoName == <<>>
NoNode == 0
DOT == "."
SLASH == "/"

\* ----------------------------------------------------------------- trees
\* A parsed tree: nodes 1..NumNodes numbered in document (pre-)order, node 1
\* the root, par[i] < i the parent of i, the children of a node ordered by id.  A MemberExpression has the slots
\* object, property; a CallExpression callee, arguments (a list); a Program
\* body (a list); an Identifier has a name and no child.
NodeTypes == {"Program", "MemberExpression", "CallExpression", "Identifier"}

RECURSIVE ChildrenFrom(_, _, _)
ChildrenFrom(t, i, j) ==
    IF j > Len(t.par) THEN <<>>
    ELSE (IF t.par[j] = i THEN <<j>> ELSE <<>>) \o ChildrenFrom(t, i, j + 1)

Children(t, i) == ChildrenFrom(t, i, i + 1)

NumNodes(t) == Len(t.par)

\* The node labels a parser can produce below the root, and at the root.
InnerLabels ==
    { [typ |-> "MemberExpression", name |-> NoName],
      [typ |-> "CallExpression", name |-> NoName] }
    \cup { [typ |-> "Identifier", name |-> nm] : nm \in Names }

RootLabels == InnerLabels \cup { [typ |-> "Program", name |-> NoName] }

RECURSIVE IsAncestorOrSelf(_, _, _)
IsAncestorOrSelf(t, p, i) ==
    IF i = NoNode THEN FALSE
    ELSE IF i = p THEN TRUE
    ELSE IsAncestorOrSelf(t, p, t.par[i])

\* A parent that can still take one more child, the next node in document order.
CanAdopt(t, p) ==
    /\ IsAncestorOrSelf(t, p, NumNodes(t))
    /\ t.typ[p] # "Identifier"
    /\ t.typ[p] = "MemberExpression" => Len(Children(t, p)) < 2

Extend(t) ==
    { [par |-> Append(t.par, p), typ |-> Append(t.typ, l.typ),
       name |-> Append(t.name, l.name)] :
        p \in { q \in 1..NumNodes(t) : CanAdopt(t, q) }, l \in InnerLabels }

RECURSIVE PartialTrees(_)
PartialTrees(n) ==
    IF n = 1
    THEN { [par |-> <<NoNode>>, typ |-> <<l.typ>>, name |-> <<l.name>>] :
             l \in RootLabels }
    ELSE UNION { Extend(t) : t \in PartialTrees(n - 1) }

Complete(t) ==
    \A i \in 1..NumNodes(t) :
        /\ t.typ[i] = "MemberExpression" => Len(Children(t, i)) = 2
        /\ t.typ[i] = "CallExpression" => Len(Children(t, i)) >= 1

Trees == UNION { { t \in PartialTrees(n) : Complete(t) } : n \in 1..MaxNodes }

\* A receiver chain x.p.q... (or x().p.q...) of k nested member accesses:
\* in document order the member accesses outermost first, then the innermost
\* receiver, then the properties innermost first.
ChainTree(k, base, props) ==
    LET inner == IF base.call THEN 2 ELSE 1
        n == k + inner + k
    IN [par |-> [i \in 1..n |->
                    IF i <= k + 1 THEN i - 1
                    ELSE IF i <= k + inner THEN i - 1
                    ELSE n - i + 1],
        typ |-> [i \in 1..n |->
                    IF i <= k THEN "MemberExpression"
                    ELSE IF i = k + 1 /\ base.call THEN "CallExpression"
                    ELSE "Identifier"],
        name |-> [i \in 1..n |->
                    IF i <= k THEN NoName
                    ELSE IF i = k + 1 /\ base.call THEN NoName
                    ELSE IF i = k + inner THEN base.name
                    ELSE props[n - i + 1]]]

ChainTrees ==
    UNION { { ChainTree(k, base, props) :
                base \in [call : BOOLEAN, name : Names], props \in [1..k -> Names] } :
            k \in 2..MaxChain }

\* The tree CallExpression(callee = Identifier fetch).
FetchCall ==
    [par |-> <<NoNode, 1>>,
     typ |-> <<"CallExpression", "Identifier">>,
     name |-> <<NoName, FETCH>>]

\* ------------------------------------------------------- node attributes
\* getattr on a parsed node: an attribute the node does not have reads as None.
object(t, i) ==
    IF t.typ[i] = "MemberExpression" THEN Children(t, i)[1] ELSE NoNode

property(t, i) ==
    IF t.typ[i] = "MemberExpression" THEN Children(t, i)[2] ELSE NoNode

callee(t, i) ==
    IF t.typ[i] = "CallExpression" THEN Children(t, i)[1] ELSE NoNode

arguments(t, i) ==
    IF t.typ[i] = "CallExpression" THEN Tail(Children(t, i)) ELSE <<>>

body(t, i) ==
    IF t.typ[i] = "Program" THEN Children(t, i) ELSE <<>>

name(t, i) == IF i = NoNode THEN NoName ELSE t.name[i]

\* node.keys(): the parser's attributes in declaration order, then whatever
\* the walker has set on the node (attrs: the nodes stamped so far).
OwnKeys(t, i) ==
    CASE t.typ[i] = "Program" -> <<"type", "body">>
      [] t.typ[i] = "MemberExpression" -> <<"type", "computed", "object", "property">>
      [] t.typ[i] = "CallExpression" -> <<"type", "callee", "arguments">>
      [] OTHER -> <<"type", "name">>

keys(t, attrs, i) ==
    OwnKeys(t, i)
    \o (IF i \in DOMAIN attrs /\ attrs[i].parent # NoNode THEN <<"parent">> ELSE <<>>)
    \o (IF i \in DOMAIN attrs THEN <<"parent_depth", "parent_width">> ELSE <<>>)

\* The tree nodes one attribute holds: a single node, the items of a list,
\* or nothing (strings, numbers, booleans and None carry no 'type').
NodesOf(t, attrs, i, key) ==
    CASE key = "object" -> IF object(t, i) = NoNode THEN <<>> ELSE <<object(t, i)>>
      [] key = "property" -> IF property(t, i) = NoNode THEN <<>> ELSE <<property(t, i)>>
      [] key = "callee" -> IF callee(t, i) = NoNode THEN <<>> ELSE <<callee(t, i)>>
      [] key = "arguments" -> arguments(t, i)
      [] key = "body" -> body(t, i)
      [] key = "parent" -> <<attrs[i].parent>>
      [] OTHER -> <<>>

\* ------------------------------------------------------------------ text
\* str.split(sep): the segments between the separators, empty ones included.
split(str, sep) ==
    LET pos == { i \in 1..Len(str) : str[i] = sep }
        n == Cardinality(pos)
        \* the k-th separator, with the two ends of the string as 0-th and last
        nth(k) == IF k = 0 THEN 0
                  ELSE IF k = n + 1 THEN Len(str) + 1
                  ELSE CHOOSE p \in pos : Cardinality({ q \in pos : q < p }) = k - 1
    IN [k \in 1..(n + 1) |-> SubSeq(str, nth(k - 1) + 1, nth(k) - 1)]

RECURSIVE join(_, _)
\* sep.join(segs)
join(sep, segs) ==
    IF segs = <<>> THEN <<>>
    ELSE IF Len(segs) = 1 THEN segs[1]
    ELSE segs[1] \o <<sep>> \o join(sep, Tail(segs))

InList(x, list) == \E k \in 1..Len(list) : list[k] = x

\* ------------------------------------------------- MatchPropertyVisitor
\* _recurrance_visit giving the segment of the link it is called on and never
\* looking at the link's own object.
recurrance_visit_shallow(t, node, api_symbols) ==
    CASE t.typ[node] = "Identifier" ->
            IF InList(name(t, node), api_symbols) THEN name(t, node) ELSE NoName
      [] t.typ[node] = "MemberExpression" ->
            IF InList(name(t, property(t, node)), api_symbols)
            THEN name(t, property(t, node)) ELSE NoName
      [] t.typ[node] = "CallExpression" ->
            IF InList(name(t, callee(t, node)), api_symbols)
            THEN name(t, callee(t, node)) ELSE NoName
      [] OTHER -> NoName

RECURSIVE recurrance_visit(_, _, _)
recursive_check_objects(t, node, api_symbols) ==
    IF object(t, node) # NoNode
    THEN recurrance_visit(t, object(t, node), api_symbols)
    ELSE NoName

recurrance_visit(t, node, api_symbols) ==
    CASE t.typ[node] = "Identifier" ->
            IF InList(name(t, node), api_symbols) THEN name(t, node) ELSE NoName
      [] t.typ[node] = "MemberExpression" ->
            IF InList(name(t, property(t, node)), api_symbols)
            THEN LET return_val == name(t, property(t, node))
                     tmp == recursive_check_objects(t, node, api_symbols)
                 IN IF tmp # NoName THEN tmp \o <<DOT>> \o return_val ELSE return_val
            ELSE NoName
      [] t.typ[node] = "CallExpression" ->
            IF InList(name(t, callee(t, node)), api_symbols)
            THEN LET return_val == name(t, callee(t, node))
                     tmp == recursive_check_objects(t, callee(t, node), api_symbols)
                 IN IF tmp # NoName THEN tmp \o <<DOT>> \o return_val ELSE return_val
            ELSE NoName
      [] OTHER -> NoName

\* _filter_parent_API dropping the leading segment whatever its length.
filter_parent_API_always(arg) == join(DOT, Tail(split(arg, DOT)))

filter_parent_API(arg) ==
    IF Len(split(arg, DOT)[1]) = 1 THEN join(DOT, Tail(split(arg, DOT))) ELSE arg

\* visit answering for any symbol of the set with the visitor's own name.
visit_anysymbol(property_name, t, node, api_symbols) ==
    IF t.typ[node] = "MemberExpression"
       /\ InList(name(t, property(t, node)), api_symbols)
    THEN property_name
    ELSE IF t.typ[node] = "CallExpression"
            /\ InList(name(t, callee(t, node)), api_symbols)
    THEN property_name
    ELSE NoName

\* visit of the visitor built for property_name; NoName is the code's False.
visit(property_name, t, node, api_symbols) ==
    IF t.typ[node] = "MemberExpression" /\ name(t, property(t, node)) = property_name
    THEN LET return_val == name(t, property(t, node))
             tmp == recursive_check_objects(t, node, api_symbols)
         IN IF tmp # NoName
            THEN filter_parent_API(tmp \o <<DOT>> \o return_val)
            ELSE return_val
    ELSE IF t.typ[node] = "CallExpression" /\ name(t, callee(t, node)) = property_name
    THEN LET return_val == name(t, callee(t, node))
             tmp == recursive_check_objects(t, callee(t, node), api_symbols)
         IN IF tmp # NoName
            THEN filter_parent_API(tmp \o <<DOT>> \o return_val)
            ELSE return_val
    ELSE NoName

\* ---------------------------------------------------------------- Element
BLACKLISTEDKEYS == {"parent"}

\* A dict value: Python keeps an int and a str apart at run time.
IntVal(num) == [tag |-> "int", num |-> num, str |-> <<>>]
StrVal(str) == [tag |-> "str", num |-> 0, str |-> str]

SymbolNode(depth, width, parent_depth, parent_width) ==
    [depth |-> depth, width |-> width,
     parent_depth |-> parent_depth, parent_width |-> parent_width]

RECURSIVE PushedFrom(_, _, _, _)
\* The children _step appends for the keys ks[k..], in order.
PushedFrom(t, attrs, node, k) ==
    LET ks == keys(t, attrs, node) IN
    IF k > Len(ks) THEN <<>>
    ELSE (IF ks[k] \in BLACKLISTEDKEYS THEN <<>> ELSE NodesOf(t, attrs, node, ks[k]))
         \o PushedFrom(t, attrs, node, k + 1)

\* _step with the two coordinates of the parent passed in the wrong order.
step_swapped(t, attrs, node, queue, depth, width) ==
    LET pushed == PushedFrom(t, attrs, node, 1)
        kids == { pushed[k] : k \in 1..Len(pushed) }
    IN [queue |-> queue \o pushed,
        attrs |-> [j \in DOMAIN attrs \cup kids |->
                     IF j \in kids
                     THEN [parent |-> node, parent_depth |-> width, parent_width |-> depth]
                     ELSE attrs[j]],
        pushed |-> Len(pushed)]

\* _step: stamps every child with its parent and the parent's coordinate and
\* appends it to the queue; pushed is the returned len(queue) - before.
step(t, attrs, node, queue, depth, width) ==
    LET pushed == PushedFrom(t, attrs, node, 1)
        kids == { pushed[k] : k \in 1..Len(pushed) }
    IN [queue |-> queue \o pushed,
        attrs |-> [j \in DOMAIN attrs \cup kids |->
                     IF j \in kids
                     THEN [parent |-> node, parent_depth |-> depth, parent_width |-> width]
                     ELSE attrs[j]],
        pushed |-> Len(pushed)]

\* The frame of walk with the depth counter started at 1 instead of 0.
WalkEnter_depth1(t, api_symbols, filename) ==
    [status |-> "running",
     queue |-> <<1>>,
     attrs |-> (1 :> [parent |-> NoNode, parent_depth |-> 0, parent_width |-> 0]),
     depth |-> 1,
     width |-> 0,
     this_depth_num_nodes |-> 1,
     next_depth_num_nodes |-> 0,
     node_counter |-> 0,
     this_depth_count |-> 0,
     extended_symbol_counter |-> (SUF :> StrVal(filename)),
     symbol_counter |-> [key \in { api_symbols[k] : k \in 1..Len(api_symbols) } |-> 0],
     node_dict |-> [key \in { api_symbols[k] : k \in 1..Len(api_symbols) } |-> <<>>],
     dequeued |-> <<>>]

\* The frame of walk at the head of its while loop (lines 119-139).
WalkEnter(t, api_symbols, filename) ==
    [status |-> "running",
     queue |-> <<1>>,
     attrs |-> (1 :> [parent |-> NoNode, parent_depth |-> 0, parent_width |-> 0]),
     depth |-> 0,
     width |-> 0,
     this_depth_num_nodes |-> 1,
     next_depth_num_nodes |-> 0,
     node_counter |-> 0,
     this_depth_count |-> 0,
     extended_symbol_counter |-> (SUF :> StrVal(filename)),
     symbol_counter |-> [key \in { api_symbols[k] : k \in 1..Len(api_symbols) } |-> 0],
     node_dict |-> [key \in { api_symbols[k] : k \in 1..Len(api_symbols) } |-> <<>>],
     dequeued |-> <<>>]

\* Lines 150-165 with the extended count always set, never tested for presence.
Record_overwrite(t, f, node, result) ==
    LET tmp == IF t.typ[node] = "MemberExpression"
               THEN name(t, property(t, node))
               ELSE name(t, callee(t, node))
    IN IF tmp \notin DOMAIN f.symbol_counter
       THEN [f EXCEPT !.status = "raised"]
       ELSE [f EXCEPT
               !.extended_symbol_counter =
                   (result :> IntVal(1)) @@ f.extended_symbol_counter,
               !.symbol_counter[tmp] = @ + 1,
               !.node_dict[tmp] =
                   Append(@, SymbolNode(f.depth, f.width,
                                        f.attrs[node].parent_depth,
                                        f.attrs[node].parent_width))]

\* Lines 150-165 without the append of line 165.
Record_noappend(t, f, node, result) ==
    LET esc == f.extended_symbol_counter
        tmp == IF t.typ[node] = "MemberExpression"
               THEN name(t, property(t, node))
               ELSE name(t, callee(t, node))
    IN IF result \in DOMAIN esc /\ esc[result].tag # "int"
       THEN [f EXCEPT !.status = "raised"]
       ELSE IF tmp \notin DOMAIN f.symbol_counter
       THEN [f EXCEPT !.status = "raised"]
       ELSE [f EXCEPT
               !.extended_symbol_counter =
                   IF result \notin DOMAIN esc
                   THEN esc @@ (result :> IntVal(1))
                   ELSE [esc EXCEPT ![result] = IntVal(@.num + 1)],
               !.symbol_counter[tmp] = @ + 1]

\* Lines 150-165: what one matching visitor records for the node.
Record(t, f, node, result) ==
    LET esc == f.extended_symbol_counter
        tmp == IF t.typ[node] = "MemberExpression"
               THEN name(t, property(t, node))
               ELSE name(t, callee(t, node))
    IN IF result \in DOMAIN esc /\ esc[result].tag # "int"
       THEN [f EXCEPT !.status = "raised"]          \* TypeError: str += int
       ELSE IF tmp \notin DOMAIN f.symbol_counter
       THEN [f EXCEPT !.status = "raised"]          \* KeyError
       ELSE [f EXCEPT
               !.extended_symbol_counter =
                   IF result \notin DOMAIN esc
                   THEN esc @@ (result :> IntVal(1))
                   ELSE [esc EXCEPT ![result] = IntVal(@.num + 1)],
               !.symbol_counter[tmp] = @ + 1,
               !.node_dict[tmp] =
                   Append(@, SymbolNode(f.depth, f.width,
                                        f.attrs[node].parent_depth,
                                        f.attrs[node].parent_width))]

RECURSIVE RunVisitors_nobreak(_, _, _, _, _, _)
\* Lines 147-166 without the break of line 166.
RunVisitors_nobreak(t, visitors, api_symbols, f, node, k) ==
    IF k > Len(visitors) \/ f.status = "raised" THEN f
    ELSE LET result == visit(visitors[k], t, node, api_symbols) IN
         RunVisitors_nobreak(t, visitors, api_symbols,
             IF result # NoName THEN Record(t, f, node, result) ELSE f, node, k + 1)

RECURSIVE RunVisitors(_, _, _, _, _, _)
\* Lines 147-166: the visitors from the k-th on, stopping at the first match.
RunVisitors(t, visitors, api_symbols, f, node, k) ==
    IF k > Len(visitors) \/ f.status = "raised" THEN f
    ELSE LET result == visit(visitors[k], t, node, api_symbols) IN
         IF result # NoName
         THEN Record(t, f, node, result)
         ELSE RunVisitors(t, visitors, api_symbols, f, node, k + 1)

\* parsed nodes are all esprima.nodes.Node instances
IsEsprimaNode(t, node) == t.typ[node] \in NodeTypes

\* Lines 142-145 with the width of line 145 left at its previous value.
Dequeue_stalewidth(f) ==
    LET node == Head(f.queue)
        width == (f.node_counter + 1) - f.this_depth_count - 1
    IN [f EXCEPT !.queue = Tail(f.queue),
                 !.this_depth_num_nodes = @ - 1,
                 !.node_counter = @ + 1,
                 !.dequeued = Append(@, [node |-> node, depth |-> f.depth,
                                         width |-> width])]

\* Lines 142-145: pop the front of the queue and compute the node's width.
\* dequeued logs every pop with the depth and width in effect.
Dequeue(f) ==
    LET node == Head(f.queue)
        width == (f.node_counter + 1) - f.this_depth_count - 1
    IN [f EXCEPT !.queue = Tail(f.queue),
                 !.this_depth_num_nodes = @ - 1,
                 !.node_counter = @ + 1,
                 !.width = width,
                 !.dequeued = Append(@, [node |-> node, depth |-> f.depth,
                                         width |-> width])]

\* Lines 171-175 with the pushed children not added to next_depth_num_nodes.
Descend_nonext(t, f, node) ==
    LET st == step(t, f.attrs, node, f.queue, f.depth, f.width) IN
    IF IsEsprimaNode(t, node)
    THEN [f EXCEPT !.queue = st.queue, !.attrs = st.attrs]
    ELSE f

\* Lines 171-175: push the children of an esprima node.
Descend(t, f, node) ==
    LET st == step(t, f.attrs, node, f.queue, f.depth, f.width) IN
    IF IsEsprimaNode(t, node)
    THEN [f EXCEPT !.queue = st.queue, !.attrs = st.attrs,
                   !.next_depth_num_nodes = @ + st.pushed]
    ELSE f

\* Lines 182-186 without the update of this_depth_count.
LevelEnd_nocount(f) ==
    IF f.this_depth_num_nodes = 0
    THEN [f EXCEPT !.this_depth_num_nodes = f.next_depth_num_nodes,
                   !.next_depth_num_nodes = 0,
                   !.depth = @ + 1]
    ELSE f

\* Lines 182-186: the level is exhausted, move to the next one.
LevelEnd(f) ==
    IF f.this_depth_num_nodes = 0
    THEN [f EXCEPT !.this_depth_num_nodes = f.next_depth_num_nodes,
                   !.next_depth_num_nodes = 0,
                   !.this_depth_count = f.node_counter,
                   !.depth = @ + 1]
    ELSE f

\* One iteration of the while loop of walk (lines 141-186), and the return
\* of line 188 when the queue has run empty.
WalkIter(t, visitors, api_symbols, f) ==
    LET node == Head(f.queue)
        f2 == RunVisitors(t, visitors, api_symbols, Dequeue(f), node, 1)
        f4 == LevelEnd(Descend(t, f2, node))
    IN IF f2.status = "raised" THEN f2
       ELSE IF f4.queue = <<>> THEN [f4 EXCEPT !.status = "returned"]
       ELSE f4

RECURSIVE WalkLoop(_, _, _, _)
WalkLoop(t, visitors, api_symbols, f) ==
    IF f.status # "running" THEN f
    ELSE WalkLoop(t, visitors, api_symbols, WalkIter(t, visitors, api_symbols, f))

\* Element(ast) with the given visitors accepted, then walk(api_symbols, filename):
\* the final frame; status "returned" carries the three returned values.
walk(t, visitors, api_symbols, filename) ==
    WalkLoop(t, visitors, api_symbols, WalkEnter(t, api_symbols, filename))

\* ------------------------------------------------------------ uniquifyList
RECURSIVE uniquifyFrom(_, _, _)
uniquifyFrom(seq, k, result) ==
    IF k > Len(seq) THEN result
    ELSE IF InList(seq[k], result) THEN uniquifyFrom(seq, k + 1, result)
    ELSE uniquifyFrom(seq, k + 1, Append(result, seq[k]))

\* uniquifyList keeping the last occurrence of every item instead of the first.
uniquifyList_last(seq) ==
    LET rev(q) == [i \in 1..Len(q) |-> q[Len(q) + 1 - i]]
    IN rev(uniquifyFrom(rev(seq), 1, <<>>))

uniquifyList(seq) == uniquifyFrom(seq, 1, <<>>)

\* -------------------------------------------------------- inputs of a walk
\* The flattened catalog before deduplication: any list of names this long.
RawSymbolLists == UNION { [1..n -> Names] : n \in 0..Cardinality(Names) }

SymbolLists == { uniquifyList(raw) : raw \in RawSymbolLists }

\* One visitor per symbol, as worker_process registers them, and possibly one
\* more accept for a symbol that already has a visitor.
VisitorLists(api_symbols) ==
    {api_symbols}
    \cup { Append(api_symbols, api_symbols[k]) : k \in 1..Len(api_symbols) }

Filenames == {<<"1">>, <<"2">>}

\* ------------------------------------------------------------ file inputs
Digits == <<"1", "2", "3", "4", "5", "6", "7", "8", "9">>

\* glob.glob(JS_SOURCE_FILES + "/*"): the directory, a slash, the file's name.
JS_SOURCE_FILES == <<"j", "s">>
GlobPath(i) == JS_SOURCE_FILES \o <<SLASH>> \o <<Digits[i]>>

\* What a file holds: bytes open() cannot decode, text esprima rejects, or a
\* script with its parsed tree.
CallScript ==
    [par |-> <<NoNode, 1, 2>>,
     typ |-> <<"Program", "CallExpression", "Identifier">>,
     name |-> <<NoName, NoName, OP>>]

ClashScript ==
    [par |-> <<NoNode, 1, 1>>,
     typ |-> <<"MemberExpression", "Identifier", "Identifier">>,
     name |-> <<NoName, A, SUF>>]

Contents ==
    { [kind |-> "undecodable", tree |-> CallScript],
      [kind |-> "syntax_error", tree |-> CallScript],
      [kind |-> "script", tree |-> CallScript],
      [kind |-> "script", tree |-> ClashScript] }

\* The symbol catalog of SYM_LIST, flattened (line 339).
SymListFlat == <<OP, SUF, OP, A>>

VARIABLES
    ast,            \* Element._ast
    visitors,       \* Element._visitors, by property name
    api_list,       \* the catalog of SYM_LIST: its groups' lists, in order
    api_symbols,    \* the module global api_symbols
    filename,       \* the filename argument of walk
    frame,          \* the locals of walk, and the attributes set on the nodes
    WORKERS,        \* pool size
    BATCH_SIZE,
    file_list,      \* paths found by glob
    file_content,   \* what each path holds
    taskq,          \* the pool's tasks not yet taken, in apply_async order
    running,        \* the tasks the pool's workers are executing
    outqueue,       \* job results waiting for the pool's result handler
    job,            \* per file: "queued", "running", "returned", "done"
    symbol_counts,  \* the success queue
    fails_list,     \* the failure queue
    pbar,           \* progress bar updates
    put_log,        \* every item ever put on symbol_counts
    test_pc,        \* where the aggregator test() stands
    counter,        \* test's counter
    buffer_list,    \* test's buffer_list
    parquet,        \* the batch files on disk, by batch number
    flushes,        \* the batch numbers written by dump_files, in order
    main_pc         \* "joining" until pool.join() returns, then "done"

walk_vars == <<ast, visitors, filename, frame>>

pipe_vars == <<WORKERS, BATCH_SIZE, file_list, file_content, taskq, running,
               outqueue, job, symbol_counts, fails_list, pbar, put_log, test_pc,
               counter, buffer_list, parquet, flushes, main_pc>>

vars == <<api_list, api_symbols, walk_vars, pipe_vars>>

file_list_size == Len(file_list)

\* --------------------------------------------------------- worker_process
\* What the job of one file ends with: an exception leaving worker_process, or
\* the returned pair.  The payload of a success lists the walker outputs that
\* the return statement passes on, under the names of the variables.
worker_process(input_file, content, symbols) ==
    LET fname == split(input_file, SLASH)[Len(split(input_file, SLASH))]
        w == walk(content.tree, symbols, symbols, fname)
    IN CASE content.kind = "undecodable" ->
              [raised |-> TRUE, ok |-> FALSE, filename |-> fname,
               payload |-> [extended_symbol_counter |-> <<>>]]
         [] content.kind = "syntax_error" ->
              [raised |-> FALSE, ok |-> FALSE, filename |-> fname,
               payload |-> [extended_symbol_counter |-> <<>>]]
         [] OTHER ->
              IF w.status = "raised"
              THEN [raised |-> TRUE, ok |-> FALSE, filename |-> fname,
                    payload |-> [extended_symbol_counter |-> <<>>]]
              ELSE [raised |-> FALSE, ok |-> TRUE, filename |-> fname,
                    payload |-> [extended_symbol_counter |-> w.extended_symbol_counter]]

\* ------------------------------------------------------------- log_result
\* The callback without its else branch: a failure is counted, not reported.
log_result_nofail(result, sc, fl, bar) ==
    IF result.ok
    THEN [symbol_counts |-> Append(sc, result.payload), fails_list |-> fl,
          pbar |-> bar + 1]
    ELSE [symbol_counts |-> sc, fails_list |-> fl, pbar |-> bar + 1]

\* The callback: the queues and the progress bar after it has run.
log_result(result, sc, fl, bar) ==
    IF result.ok
    THEN [symbol_counts |-> Append(sc, result.payload), fails_list |-> fl,
          pbar |-> bar + 1]
    ELSE [symbol_counts |-> sc, fails_list |-> Append(fl, result.filename),
          pbar |-> bar + 1]

\* ------------------------------------------------------------------ test
\* math.ceil(a / b) for a >= 0, b >= 1
ceil_div(a, b) == (a + b - 1) \div b

\* dump_files: writes the buffer under the batch number of the counter.
dump_files(files, buf, cnt, batch) ==
    [parquet |-> (ceil_div(cnt, batch) :> buf) @@ files,
     number |-> ceil_div(cnt, batch)]

TestTask == [kind |-> "test", file |-> 0]
FileTask(i) == [kind |-> "file", file |-> i]

\* --------------------------------------------------------------- pipeline
\* The state once every apply_async of lines 405-409 has been issued and the
\* pool is closed: the aggregator first, then one task per file.
Init ==
    /\ api_list = <<SymListFlat>>
    /\ api_symbols = uniquifyList(SymListFlat)
    /\ WORKERS \in 1..MaxWorkers
    /\ BATCH_SIZE \in 1..MaxBatch
    /\ \E n \in 0..MaxFiles :
          /\ file_list = [i \in 1..n |-> GlobPath(i)]
          /\ file_content \in [1..n -> Contents]
          /\ taskq = <<TestTask>> \o [i \in 1..n |-> FileTask(i)]
          /\ job = [i \in 1..n |-> "queued"]
    /\ running = {}
    /\ outqueue = <<>>
    /\ symbol_counts = <<>>
    /\ fails_list = <<>>
    /\ pbar = 0
    /\ put_log = <<>>
    /\ test_pc = "queued"
    /\ counter = 0
    /\ buffer_list = <<>>
    /\ parquet = <<>>
    /\ flushes = <<>>
    /\ main_pc = "joining"
    /\ ast = CallScript
    /\ visitors = <<>>
    /\ filename = <<>>
    /\ frame = [status |-> "not called"]

\* A free pool worker takes the aggregator task.
take_test ==
    /\ taskq # <<>>
    /\ Head(taskq).kind = "test"
    /\ Cardinality(running) < WORKERS
    /\ taskq' = Tail(taskq)
    /\ running' = running \cup {Head(taskq)}
    /\ test_pc' = "check"
    /\ UNCHANGED <<api_list, api_symbols, walk_vars, WORKERS, BATCH_SIZE, file_list,
                   file_content, outqueue, job, symbol_counts, fails_list, pbar,
                   put_log, counter, buffer_list, parquet, flushes, main_pc>>

\* A free pool worker takes the next file.
take_file ==
    /\ taskq # <<>>
    /\ Head(taskq).kind = "file"
    /\ Cardinality(running) < WORKERS
    /\ taskq' = Tail(taskq)
    /\ running' = running \cup {Head(taskq)}
    /\ job' = [job EXCEPT ![Head(taskq).file] = "running"]
    /\ UNCHANGED <<api_list, api_symbols, walk_vars, WORKERS, BATCH_SIZE, file_list,
                   file_content, outqueue, symbol_counts, fails_list, pbar,
                   put_log, test_pc, counter, buffer_list, parquet, flushes,
                   main_pc>>

\* worker_process ends for one file: its return value, or the exception that
\* left it, goes to the pool's result handler.
finish_file ==
    \E task \in running :
        /\ task.kind = "file"
        /\ running' = running \ {task}
        /\ outqueue' = Append(outqueue,
               [file |-> task.file,
                result |-> worker_process(file_list[task.file],
                                          file_content[task.file], api_symbols)])
        /\ job' = [job EXCEPT ![task.file] = "returned"]
        /\ UNCHANGED <<api_list, api_symbols, walk_vars, WORKERS, BATCH_SIZE, file_list,
                       file_content, taskq, symbol_counts, fails_list, pbar,
                       put_log, test_pc, counter, buffer_list, parquet, flushes,
                       main_pc>>

\* The result handler takes one job result: a returned value is passed to the
\* callback log_result; an exception is stored in the AsyncResult, and with no
\* error_callback given (line 409) nothing is called.
handle_result ==
    /\ outqueue # <<>>
    /\ LET r == Head(outqueue).result
           q == log_result(r, symbol_counts, fails_list, pbar)
       IN IF r.raised
          THEN UNCHANGED <<symbol_counts, fails_list, pbar, put_log>>
          ELSE /\ symbol_counts' = q.symbol_counts
               /\ fails_list' = q.fails_list
               /\ pbar' = q.pbar
               /\ put_log' = put_log \o SubSeq(q.symbol_counts,
                                 Len(symbol_counts) + 1, Len(q.symbol_counts))
    /\ outqueue' = Tail(outqueue)
    /\ job' = [job EXCEPT ![Head(outqueue).file] = "done"]
    /\ UNCHANGED <<api_list, api_symbols, walk_vars, WORKERS, BATCH_SIZE, file_list,
                   file_content, taskq, running, test_pc, counter, buffer_list,
                   parquet, flushes, main_pc>>

\* Line 381: the loop condition of test.
test_check ==
    /\ test_pc = "check"
    /\ test_pc' = IF counter + Len(fails_list) < file_list_size
                  THEN "get" ELSE "final"
    /\ UNCHANGED <<api_list, api_symbols, walk_vars, WORKERS, BATCH_SIZE, file_list,
                   file_content, taskq, running, outqueue, job, symbol_counts,
                   fails_list, pbar, put_log, counter, buffer_list, parquet,
                   flushes, main_pc>>

\* Lines 386-396: symbol_counts.get() returns once an item is there; the item
\* is buffered and a full buffer is dumped.
test_get ==
    /\ test_pc = "get"
    /\ symbol_counts # <<>>
    /\ symbol_counts' = Tail(symbol_counts)
    /\ counter' = counter + 1
    /\ LET buf == Append(buffer_list, Head(symbol_counts))
           d == dump_files(parquet, buf, counter + 1, BATCH_SIZE)
       IN IF (counter + 1) % BATCH_SIZE = 0
          THEN /\ parquet' = d.parquet
               /\ flushes' = Append(flushes, d.number)
               /\ buffer_list' = <<>>
          ELSE /\ buffer_list' = buf
               /\ UNCHANGED <<parquet, flushes>>
    /\ test_pc' = "check"
    /\ UNCHANGED <<api_list, api_symbols, walk_vars, WORKERS, BATCH_SIZE, file_list,
                   file_content, taskq, running, outqueue, job, fails_list, pbar,
                   put_log, main_pc>>

\* Line 398: the dump after the loop; test returns and its worker is free.
test_final ==
    /\ test_pc = "final"
    /\ LET d == dump_files(parquet, buffer_list, counter, BATCH_SIZE)
       IN /\ parquet' = d.parquet
          /\ flushes' = Append(flushes, d.number)
    /\ buffer_list' = <<>>
    /\ test_pc' = "done"
    /\ running' = running \ {TestTask}
    /\ UNCHANGED <<api_list, api_symbols, walk_vars, WORKERS, BATCH_SIZE, file_list,
                   file_content, taskq, outqueue, job, symbol_counts, fails_list,
                   pbar, put_log, counter, main_pc>>

\* Line 412: pool.join() returns when every task has been run to its end.
pool_join ==
    /\ main_pc = "joining"
    /\ taskq = <<>>
    /\ running = {}
    /\ outqueue = <<>>
    /\ main_pc' = "done"
    /\ UNCHANGED <<api_list, api_symbols, walk_vars, WORKERS, BATCH_SIZE, file_list,
                   file_content, taskq, running, outqueue, job, symbol_counts,
                   fails_list, pbar, put_log, test_pc, counter, buffer_list,
                   parquet, flushes>>

Next ==
    \/ take_test
    \/ take_file
    \/ finish_file
    \/ handle_result
    \/ test_check
    \/ test_get
    \/ test_final
    \/ pool_join

Spec == Init /\ [][Next]_vars

\* ------------------------------------------------------ one walk, stepwise
\* Element(ast) with its visitors accepted; walk not yet called.  The pool is
\* not part of this specification.
InitWalk ==
    /\ ast \in Trees \cup ChainTrees \cup {FetchCall}
    /\ api_symbols \in SymbolLists \cup {<<FETCH>>}
    /\ api_list = <<api_symbols>>
    /\ visitors \in VisitorLists(api_symbols)
    /\ filename \in Filenames
    /\ frame = [status |-> "not called"]
    /\ WORKERS = 1
    /\ BATCH_SIZE = 1
    /\ file_list = <<>>
    /\ file_content = <<>>
    /\ taskq = <<>>
    /\ running = {}
    /\ outqueue = <<>>
    /\ job = <<>>
    /\ symbol_counts = <<>>
    /\ fails_list = <<>>
    /\ pbar = 0
    /\ put_log = <<>>
    /\ test_pc = "done"
    /\ counter = 0
    /\ buffer_list = <<>>
    /\ parquet = <<>>
    /\ flushes = <<>>
    /\ main_pc = "done"

walk_call ==
    /\ frame.status = "not called"
    /\ frame' = WalkEnter(ast, api_symbols, filename)
    /\ UNCHANGED <<api_list, ast, visitors, api_symbols, filename, pipe_vars>>

walk_loop ==
    /\ frame.status = "running"
    /\ frame' = WalkIter(ast, visitors, api_symbols, frame)
    /\ UNCHANGED <<api_list, ast, visitors, api_symbols, filename, pipe_vars>>

NextWalk == walk_call \/ walk_loop

SpecWalk == InitWalk /\ [][NextWalk]_vars

\* ------------------------------------------------- loading the symbol set
RECURSIVE flatten(_)
\* Line 339: [val for sublist in api_list.values() for val in sublist]
flatten(groups) ==
    IF groups = <<>> THEN <<>> ELSE Head(groups) \o flatten(Tail(groups))

\* The catalogs json.loads can return: the lists of its groups, in file order.
Catalogs ==
    UNION { [1..g -> UNION { [1..n -> Names] : n \in 0..MaxGroupLen }] :
            g \in 0..MaxGroups }

\* The catalog has been read (line 336); nothing else has happened yet.
InitSymbols ==
    /\ api_list \in Catalogs
    /\ api_symbols = <<>>
    /\ main_pc = "line 339"
    /\ ast = CallScript
    /\ visitors = <<>>
    /\ filename = <<>>
    /\ frame = [status |-> "not called"]
    /\ WORKERS = 1
    /\ BATCH_SIZE = 1
    /\ file_list = <<>>
    /\ file_content = <<>>
    /\ taskq = <<>>
    /\ running = {}
    /\ outqueue = <<>>
    /\ job = <<>>
    /\ symbol_counts = <<>>
    /\ fails_list = <<>>
    /\ pbar = 0
    /\ put_log = <<>>
    /\ test_pc = "queued"
    /\ counter = 0
    /\ buffer_list = <<>>
    /\ parquet = <<>>
    /\ flushes = <<>>

\* Line 339
flatten_symbols ==
    /\ main_pc = "line 339"
    /\ api_symbols' = flatten(api_list)
    /\ main_pc' = "line 340"
    /\ UNCHANGED <<api_list, walk_vars, WORKERS, BATCH_SIZE, file_list,
                   file_content, taskq, running, outqueue, job, symbol_counts,
                   fails_list, pbar, put_log, test_pc, counter, buffer_list,
                   parquet, flushes>>

\* Line 340
uniquify_symbols ==
    /\ main_pc = "line 340"
    /\ api_symbols' = uniquifyList(api_symbols)
    /\ main_pc' = "line 346"
    /\ UNCHANGED <<api_list, walk_vars, WORKERS, BATCH_SIZE, file_list,
                   file_content, taskq, running, outqueue, job, symbol_counts,
                   fails_list, pbar, put_log, test_pc, counter, buffer_list,
                   parquet, flushes>>

NextSymbols == flatten_symbols \/ uniquify_symbols

SpecSymbols == InitSymbols /\ [][NextSymbols]_vars

\* ----------------------------------------------------------------- claims
\* ------------------------------------------------------- helper operators
FileName(i) == split(file_list[i], SLASH)[Len(split(file_list[i], SLASH))]

Outcome(i) == worker_process(file_list[i], file_content[i], api_symbols)

\* The filename a success payload carries.
PayloadFile(p) == p.extended_symbol_counter[SUF].str

CountIn(seq, x) == Cardinality({ k \in 1..Len(seq) : seq[k] = x })

CountPayloads(seq, fname) ==
    Cardinality({ k \in 1..Len(seq) : PayloadFile(seq[k]) = fname })

Walking == frame.status \in {"running", "returned"}

RECURSIVE SumOver(_, _)
SumOver(fn, S) ==
    IF S = {} THEN 0
    ELSE LET x == CHOOSE y \in S : TRUE IN fn[x] + SumOver(fn, S \ {x})

TotalCounts(f) == SumOver(f.symbol_counter, DOMAIN f.symbol_counter)

TotalExtended(f) ==
    SumOver([key \in DOMAIN f.extended_symbol_counter |->
                f.extended_symbol_counter[key].num],
            DOMAIN f.extended_symbol_counter)

TotalOccurrences(f) ==
    SumOver([key \in DOMAIN f.node_dict |-> Len(f.node_dict[key])],
            DOMAIN f.node_dict)

\* Every SymbolNode recorded so far.
Recorded(f) ==
    UNION { { f.node_dict[key][k] : k \in 1..Len(f.node_dict[key]) } :
              key \in DOMAIN f.node_dict }


\* ---------------------------------------------------------------- C1
\* Every file has been run and its result handled: nothing will be put on a
\* queue any more.
AllAccounted ==
    /\ taskq = <<>>
    /\ outqueue = <<>>
    /\ \A i \in 1..file_list_size : job[i] = "done"

\* C1: the aggregator stops once the successes consumed plus the failures seen
\* equal the number of files: it is never left blocked in symbol_counts.get()
\* on an empty queue when the last file has been accounted for.
C1_AggregatorStops ==
    ~ ( /\ AllAccounted
        /\ counter + Len(fails_list) = file_list_size
        /\ test_pc = "get"
        /\ symbol_counts = <<>> )

\* ---------------------------------------------------------------- C2
NumSuccess == Cardinality({ i \in 1..file_list_size : Outcome(i).ok })

\* C2: a completed run with N >= 1 successes has persisted exactly ceil(N/B)
\* batches, each of B results but the last, which holds the remainder.
C2_BatchSizes ==
    (test_pc = "done" /\ NumSuccess >= 1) =>
        LET last == ceil_div(NumSuccess, BATCH_SIZE) IN
        /\ DOMAIN parquet = 1..last
        /\ \A k \in 1..(last - 1) : Len(parquet[k]) = BATCH_SIZE
        /\ Len(parquet[last]) = NumSuccess - BATCH_SIZE * (last - 1)

\* ---------------------------------------------------------------- C3
\* C3: a file whose job is over is accounted for by exactly one message,
\* its result on the success queue or its filename on the failure queue.
C3_EveryFileAccounted ==
    \A i \in 1..file_list_size :
        job[i] = "done" =>
            CountPayloads(put_log, FileName(i)) + CountIn(fails_list, FileName(i)) = 1

\* ---------------------------------------------------------------- C4
ParseFailures == { i \in 1..file_list_size : file_content[i].kind = "syntax_error" }

\* C4: a file that fails to parse gives exactly one failure record with its
\* filename once its job is over (never more), nothing on the success queue,
\* and no entry in any persisted batch.
C4_ParseFailure ==
    \A i \in ParseFailures :
        /\ CountIn(fails_list, FileName(i)) <= 1
        /\ job[i] = "done" => CountIn(fails_list, FileName(i)) = 1
        /\ CountPayloads(put_log, FileName(i)) = 0
        /\ CountPayloads(symbol_counts, FileName(i)) = 0
        /\ \A b \in DOMAIN parquet : CountPayloads(parquet[b], FileName(i)) = 0

\* A parse failure has been reported while a batch with a result is on disk.
C4_Witness ==
    \E i \in ParseFailures :
        /\ job[i] = "done"
        /\ CountIn(fails_list, FileName(i)) = 1
        /\ \E b \in DOMAIN parquet : Len(parquet[b]) > 0

\* ---------------------------------------------------------------- C5
\* C5: every non-root node dequeued, and every non-root node recorded, has
\* parent_depth equal to its own depth minus 1.
C5_ParentDepth ==
    frame.status # "not called" =>
        /\ \A k \in 1..Len(frame.dequeued) :
              LET e == frame.dequeued[k] IN
              e.node # 1 => frame.attrs[e.node].parent_depth = e.depth - 1
        /\ \A sn \in Recorded(frame) :
              sn.depth # 0 => sn.parent_depth = sn.depth - 1

\* An occurrence two levels below the root has been recorded.
C5_Witness ==
    /\ frame.status = "returned"
    /\ \E sn \in Recorded(frame) : sn.depth = 2 /\ sn.parent_depth = 1

\* ---------------------------------------------------------------- C6
\* C6: the k-th node dequeued at a depth gets width k - 1, so the widths of a
\* depth are 0, 1, 2, ... in dequeue order, and a recorded occurrence carries
\* the depth and width of a dequeued node.
C6_Widths ==
    frame.status # "not called" =>
        /\ \A k \in 1..Len(frame.dequeued) :
              frame.dequeued[k].width =
                  Cardinality({ j \in 1..(k - 1) :
                      frame.dequeued[j].depth = frame.dequeued[k].depth })
        /\ \A sn \in Recorded(frame) :
              \E k \in 1..Len(frame.dequeued) :
                  /\ frame.dequeued[k].depth = sn.depth
                  /\ frame.dequeued[k].width = sn.width

\* Two nodes at depth 1 and one at depth 2 have been dequeued.
C6_Witness ==
    /\ frame.status = "returned"
    /\ \E k, m \in 1..Len(frame.dequeued) :
          /\ frame.dequeued[k].depth = 1 /\ frame.dequeued[k].width = 1
          /\ frame.dequeued[m].depth = 2 /\ frame.dequeued[m].width = 0

\* ---------------------------------------------------------------- C7
\* C7: the k-th flush of a run writes batch number k (so never 0, never the
\* number of an earlier flush).
C7_BatchNumbers == \A k \in 1..Len(flushes) : flushes[k] = k

\* ---------------------------------------------------------------- C8
\* C8: while walk runs and when it returns, the script_url_filename entry of
\* extended_symbol_counter is the filename walk was called with.
C8_Filename ==
    Walking =>
        /\ SUF \in DOMAIN frame.extended_symbol_counter
        /\ frame.extended_symbol_counter[SUF] = StrVal(filename)

\* walk has returned after recording a use of the symbol script_url_filename.
C8_Witness ==
    /\ frame.status = "returned"
    /\ SUF \in DOMAIN frame.symbol_counter
    /\ frame.symbol_counter[SUF] >= 1

\* ---------------------------------------------------------------- C9
\* C9: one iteration of the loop of walk, that is one visited node, adds at
\* most one to the base counts, to the extended counts and to the coordinates.
C9_OnePerNode ==
    [][ (frame.status = "running" /\ frame'.status \in {"running", "returned"}) =>
            /\ TotalCounts(frame') <= TotalCounts(frame) + 1
            /\ TotalExtended(frame') <= TotalExtended(frame) + 1
            /\ TotalOccurrences(frame') <= TotalOccurrences(frame) + 1 ]_vars

\* A symbol with two registered visitors has been matched and recorded once.
C9_Witness ==
    /\ frame.status = "returned"
    /\ \E key \in DOMAIN frame.symbol_counter :
          /\ CountIn(visitors, key) = 2
          /\ frame.symbol_counter[key] = 1
          /\ Len(frame.node_dict[key]) = 1

\* --------------------------------------------------------------- C10
\* The three outputs of the walker for file i.
FileResult(i) ==
    LET w == walk(file_content[i].tree, api_symbols, api_symbols, FileName(i))
    IN [symbol_counter |-> w.symbol_counter,
        extended_symbol_counter |-> w.extended_symbol_counter,
        node_dict |-> w.node_dict]

\* C10: what a parsed file hands to the aggregator carries the counts, the
\* extended counts and the occurrences of its walk.
C10_FileResultComplete ==
    \A k \in 1..Len(put_log) :
        \E i \in 1..file_list_size :
            /\ Outcome(i).ok
            /\ put_log[k] = FileResult(i)

\* --------------------------------------------------------------- C11
\* The node whose object chain visit follows: the node itself for a member
\* access, its callee for a call.
ChainBase(node) ==
    IF ast.typ[node] = "MemberExpression" THEN node ELSE callee(ast, node)

\* The path the visitor for pn has assembled at node before any stripping.
AssembledPath(pn, node) ==
    LET tmp == recursive_check_objects(ast, ChainBase(node), api_symbols)
    IN IF tmp = NoName THEN pn ELSE tmp \o <<DOT>> \o pn

DotsOf(path) == { i \in 1..Len(path) : path[i] = DOT }

NumSegments(path) == Cardinality(DotsOf(path)) + 1

LeadLen(path) ==
    IF DotsOf(path) = {} THEN Len(path)
    ELSE (CHOOSE i \in DotsOf(path) : \A j \in DotsOf(path) : i <= j) - 1

\* The pairs (node, registered visitor) among nodes where the visitor matches.
MatchesIn(nodes) ==
    { m \in [node : nodes, pn : { visitors[v] : v \in 1..Len(visitors) }] :
        visit(m.pn, ast, m.node, api_symbols) # NoName }

\* The node the last iteration of walk has run the visitors on.
JustVisited ==
    IF frame.status = "not called" \/ frame.dequeued = <<>> THEN {}
    ELSE { frame.dequeued[Len(frame.dequeued)].node }

\* The matches of the last iteration, and of all the iterations so far.
NewMatches == MatchesIn(JustVisited)

Matches ==
    IF frame.status = "not called" THEN {}
    ELSE MatchesIn({ frame.dequeued[k].node : k \in 1..Len(frame.dequeued) })

\* C11: at every node walk visits, a match returns its assembled path
\* without the leading segment and its dot when the path has 2 or more
\* segments and the leading one is a single character, and the assembled path
\* itself otherwise; the returned path is the key counted in
\* extended_symbol_counter.
C11_RootStripping ==
    \A m \in NewMatches :
        LET raw == AssembledPath(m.pn, m.node)
            res == visit(m.pn, ast, m.node, api_symbols)
        IN /\ IF NumSegments(raw) >= 2 /\ LeadLen(raw) = 1
              THEN res = SubSeq(raw, 3, Len(raw))
              ELSE res = raw
           /\ frame.status # "raised" => res \in DOMAIN frame.extended_symbol_counter

\* A walk has returned with a.op counted as op and the single segment a
\* counted as it is.
C11_Witness ==
    /\ frame.status = "returned"
    /\ \E m, n \in Matches :
          /\ AssembledPath(m.pn, m.node) = A \o <<DOT>> \o OP
          /\ AssembledPath(n.pn, n.node) = A
          /\ DOMAIN frame.extended_symbol_counter = {SUF, OP, A}

\* --------------------------------------------------------------- C12
\* walk has been called on CallExpression(callee = Identifier fetch) with the
\* symbol set {fetch}.
FetchWalk == ast = FetchCall /\ api_symbols = <<FETCH>> /\ frame.status # "not called"

\* C12: that walk never raises; once the root has been dequeued, and when the
\* walk has returned after the callee Identifier too, fetch has exactly one
\* occurrence, at (0, 0, 0, 0), counts[fetch] = 1 and extended_counts[fetch] = 1.
C12_FetchEndToEnd ==
    FetchWalk =>
        /\ frame.status # "raised"
        /\ Len(frame.dequeued) >= 1 =>
              /\ frame.node_dict = (FETCH :> <<SymbolNode(0, 0, 0, 0)>>)
              /\ frame.symbol_counter = (FETCH :> 1)
              /\ frame.extended_symbol_counter =
                    (SUF :> StrVal(filename)) @@ (FETCH :> IntVal(1))
        /\ frame.status = "returned" =>
              { frame.dequeued[k].node : k \in 1..Len(frame.dequeued) } = {1, 2}

\* The walk of the fetch tree has returned with both nodes visited.
C12_Witness ==
    /\ FetchWalk
    /\ frame.status = "returned"
    /\ Len(frame.dequeued) = 2
    /\ frame.symbol_counter[FETCH] = 1

\* --------------------------------------------------------------- C13
\* The names of the catalog, and the place where a name first appears.
CatalogNames ==
    UNION { { api_list[g][k] : k \in 1..Len(api_list[g]) } : g \in 1..Len(api_list) }

Places == { pl \in [g : 1..Len(api_list), k : 0..MaxGroupLen + 1] :
              pl.k \in 1..Len(api_list[pl.g]) }

Before(p, q) == p.g < q.g \/ (p.g = q.g /\ p.k < q.k)

FirstPlace(x) ==
    CHOOSE p \in Places :
        /\ api_list[p.g][p.k] = x
        /\ \A q \in Places : api_list[q.g][q.k] = x => (q = p \/ Before(p, q))

\* C13: the symbol set built from the catalog has no duplicate, holds exactly
\* the names of the catalog, and orders them by first appearance in the
\* catalog read group after group.
C13_SymbolSet ==
    main_pc = "line 346" =>
        /\ \A i, j \in 1..Len(api_symbols) : i # j => api_symbols[i] # api_symbols[j]
        /\ { api_symbols[i] : i \in 1..Len(api_symbols) } = CatalogNames
        /\ \A i, j \in 1..Len(api_symbols) :
              i < j => Before(FirstPlace(api_symbols[i]), FirstPlace(api_symbols[j]))

\* The catalog {a: [x, y], b: [y, z]} has given [x, y, z].
C13_Witness ==
    /\ main_pc = "line 346"
    /\ api_list = << <<A, OP>>, <<OP, SUF>> >>
    /\ api_symbols = <<A, OP, SUF>>

\* --------------------------------------------------------------- C14
\* The places (batch, index) of the batch files fs that hold the result r.
PlacesOf(fs, r) ==
    { pl \in [b : DOMAIN fs, j : 1..MaxFiles] :
        pl.j <= Len(fs[pl.b]) /\ fs[pl.b][pl.j] = r }

\* C14: no step changes or replaces the content of a batch already flushed,
\* and when the aggregator has finished every result it took from the success
\* queue (the first counter items put there) is in exactly one batch.
C14_BatchesKept ==
    [][ /\ \A b \in DOMAIN parquet :
              b \in DOMAIN parquet' /\ parquet'[b] = parquet[b]
        /\ test_pc' = "done" =>
              \A k \in 1..counter' :
                  Cardinality(PlacesOf(parquet', put_log'[k])) = 1 ]_vars

\* --------------------------------------------------------------- C15
\* The log entry of the dequeue of node i.
DequeueOf(i) ==
    frame.dequeued[CHOOSE k \in 1..Len(frame.dequeued) : frame.dequeued[k].node = i]

WasDequeued(i) == \E k \in 1..Len(frame.dequeued) : frame.dequeued[k].node = i

\* C15: a node in the queue or already dequeued, other than the root, carries
\* as (parent_depth, parent_width) the (depth, width) its parent had when the
\* parent was dequeued.
C15_ParentCoordinate ==
    frame.status # "not called" =>
        \A i \in DOMAIN frame.attrs :
            i # 1 =>
                /\ frame.attrs[i].parent = ast.par[i]
                /\ WasDequeued(ast.par[i])
                /\ frame.attrs[i].parent_width = DequeueOf(ast.par[i]).width
                /\ frame.attrs[i].parent_depth = DequeueOf(ast.par[i]).depth

\* A node whose parent was the second node of its level has been dequeued.
C15_Witness ==
    /\ frame.status = "returned"
    /\ \E i \in DOMAIN frame.attrs :
          /\ i # 1
          /\ WasDequeued(i)
          /\ frame.attrs[i].parent_width = 1
          /\ DequeueOf(ast.par[i]).width = 1

\* --------------------------------------------------------------- C16
RECURSIVE Distance(_)
\* The number of edges between node i and the root of ast.
Distance(i) == IF ast.par[i] = NoNode THEN 0 ELSE 1 + Distance(ast.par[i])

\* C16: a node is dequeued at the depth equal to its distance from the root,
\* in non-decreasing depth order, and while the queue is not empty the depth
\* counter is the distance of the node at the front of the queue.
C16_DepthIsDistance ==
    frame.status # "not called" =>
        /\ \A k \in 1..Len(frame.dequeued) :
              frame.dequeued[k].depth = Distance(frame.dequeued[k].node)
        /\ \A j, k \in 1..Len(frame.dequeued) :
              j < k => frame.dequeued[j].depth <= frame.dequeued[k].depth
        /\ (frame.status = "running" /\ frame.queue # <<>>) =>
              frame.depth = Distance(Head(frame.queue))

\* A walk has returned after dequeuing a node three levels below the root.
C16_Witness ==
    /\ frame.status = "returned"
    /\ \E k \in 1..Len(frame.dequeued) :
          /\ frame.dequeued[k].depth = 3
          /\ Distance(frame.dequeued[k].node) = 3

\* --------------------------------------------------------------- C17
\* No node has been dequeued twice, and no more nodes than the tree has.
NoRevisit ==
    /\ \A j, k \in 1..Len(frame.dequeued) :
          j # k => frame.dequeued[j].node # frame.dequeued[k].node
    /\ Len(frame.dequeued) + Len(frame.queue) <= NumNodes(ast)

\* C17: walk comes to its return on every tree, within as many iterations as
\* the tree has nodes, having dequeued every node exactly once: it never ends
\* early with an exception and never dequeues a node again through the parent
\* slot set on the children.
C17_VisitsAllOnce ==
    frame.status # "not called" =>
        /\ NoRevisit
        /\ frame.status # "raised"
        /\ frame.status = "returned" =>
              { frame.dequeued[k].node : k \in 1..Len(frame.dequeued) }
                  = 1..NumNodes(ast)

\* --------------------------------------------------------------- C18
RECURSIVE LinksFrom(_)
\* The successive links of an object chain from link on: a member access is
\* followed by its object, anything else ends the chain.
LinksFrom(link) ==
    IF link = NoNode THEN <<>>
    ELSE <<link>> \o (IF ast.typ[link] = "MemberExpression"
                      THEN LinksFrom(object(ast, link)) ELSE <<>>)

\* The segment a link stands for.
LinkName(link) ==
    CASE ast.typ[link] = "MemberExpression" -> name(ast, property(ast, link))
      [] ast.typ[link] = "CallExpression" -> name(ast, callee(ast, link))
      [] OTHER -> name(ast, link)

\* How many links from the first on are all in the symbol set.
MatchedLinks(links) ==
    CHOOSE n \in 0..Len(links) :
        /\ \A i \in 1..n : InList(LinkName(links[i]), api_symbols)
        /\ n < Len(links) => ~InList(LinkName(links[n + 1]), api_symbols)

RECURSIVE Receivers(_, _)
\* The segments of the first n links, the n-th first, each followed by a dot.
Receivers(links, n) ==
    IF n = 0 THEN <<>>
    ELSE LinkName(links[n]) \o <<DOT>> \o Receivers(links, n - 1)

\* The matches on a member access, of all iterations and of the last one.
MemberMatches == { m \in Matches : ast.typ[m.node] = "MemberExpression" }

NewMemberMatches == { m \in NewMatches : ast.typ[m.node] = "MemberExpression" }

\* C18: for a member access whose property is the visitor's symbol S, the
\* assembled path is S preceded by one segment per link of the object chain,
\* outermost receiver first, for as long as the links are in the symbol set;
\* with no single-character leading segment it is the key that is counted.
C18_ChainPath ==
    \A m \in NewMemberMatches :
        LET links == LinksFrom(object(ast, m.node))
            path == Receivers(links, MatchedLinks(links)) \o m.pn
        IN /\ AssembledPath(m.pn, m.node) = path
           /\ (frame.status # "raised" /\ LeadLen(path) # 1) =>
                 path \in DOMAIN frame.extended_symbol_counter

\* A path of three segments, two links of the chain taken, has been counted.
C18_Witness ==
    /\ frame.status = "returned"
    /\ \E m \in MemberMatches :
          /\ MatchedLinks(LinksFrom(object(ast, m.node))) = 2
          /\ NumSegments(AssembledPath(m.pn, m.node)) = 3
          /\ AssembledPath(m.pn, m.node) \in DOMAIN frame.extended_symbol_counter

\* --------------------------------------------------------------- C19
\* The segment after the last dot of a path.
LastSegment(path) ==
    LET dots == DotsOf(path)
        last == IF dots = {} THEN 0 ELSE CHOOSE i \in dots : \A j \in dots : j <= i
    IN SubSeq(path, last + 1, Len(path))

\* The numeric extended counts of the paths that end in the symbol s, summed.
ExtendedOf(f, s) ==
    LET paths == { key \in DOMAIN f.extended_symbol_counter :
                     /\ f.extended_symbol_counter[key].tag = "int"
                     /\ LastSegment(key) = s }
    IN SumOver([key \in paths |-> f.extended_symbol_counter[key].num], paths)

NumericTotal(f) ==
    LET paths == { key \in DOMAIN f.extended_symbol_counter :
                     f.extended_symbol_counter[key].tag = "int" }
    IN SumOver([key \in paths |-> f.extended_symbol_counter[key].num], paths)

\* C19: at every iteration of walk and at its return, each base symbol's count
\* is the number of its coordinates and the sum of the extended counts of the
\* paths ending in it, and the numeric extended counts sum to the counts.
C19_CountsAgree ==
    Walking =>
        /\ \A s \in DOMAIN frame.symbol_counter :
              /\ frame.symbol_counter[s] = Len(frame.node_dict[s])
              /\ frame.symbol_counter[s] = ExtendedOf(frame, s)
        /\ NumericTotal(frame) = TotalCounts(frame)

\* A walk has returned with a symbol counted twice under two different paths.
C19_Witness ==
    /\ frame.status = "returned"
    /\ \E s \in DOMAIN frame.symbol_counter :
          /\ frame.symbol_counter[s] = 2
          /\ \E p, q \in DOMAIN frame.extended_symbol_counter :
                /\ p # q
                /\ LastSegment(p) = s /\ LastSegment(q) = s
                /\ frame.extended_symbol_counter[p] = IntVal(1)
                /\ frame.extended_symbol_counter[q] = IntVal(1)

\* --------------------------------------------------------------- C20
\* The orders in which one visitor per symbol can be registered.
Orders ==
    { [i \in 1..Len(api_symbols) |-> api_symbols[p[i]]] :
        p \in { q \in [1..Len(api_symbols) -> 1..Len(api_symbols)] :
                  \A i, j \in 1..Len(api_symbols) : q[i] = q[j] => i = j } }

\* What walk hands back: the exception, or the three returned values.
Returned(f) ==
    IF f.status = "returned"
    THEN [status |-> f.status, symbol_counter |-> f.symbol_counter,
          extended_symbol_counter |-> f.extended_symbol_counter,
          node_dict |-> f.node_dict]
    ELSE [status |-> f.status, symbol_counter |-> <<>>,
          extended_symbol_counter |-> <<>>, node_dict |-> <<>>]

\* C20: with one visitor per symbol, at most one registered visitor matches
\* any node, and the finished walk gives what walk gives on the same tree
\* for every other order of registration.
C20_OrderIndependent ==
    (visitors \in Orders /\ frame.status \in {"returned", "raised"}) =>
        /\ \A i \in 1..NumNodes(ast) :
              Cardinality({ v \in 1..Len(visitors) :
                  visit(visitors[v], ast, i, api_symbols) # NoName }) <= 1
        /\ \A order \in Orders :
              Returned(walk(ast, order, api_symbols, filename)) = Returned(frame)

\* Three visitors are registered and two of them have each matched a node.
C20_Witness ==
    /\ visitors \in Orders
    /\ Len(visitors) = 3
    /\ frame.status = "returned"
    /\ \E s, u \in DOMAIN frame.symbol_counter :
          s # u /\ frame.symbol_counter[s] >= 1 /\ frame.symbol_counter[u] >= 1

====
